---- MODULE Spec2Model ----
(***************************************************************************)
(* Model of the retry engine of glennpratt/retry:                          *)
(*   src/src/retry_command/src/lib.rs          RetryCommand                *)
(*   src/src/retry_command/src/exit_code_ext.rs ExitCodeExt (resolver)     *)
(* A RetryCommand is built with new(), configured with chained mutators,   *)
(* and then run once by status_and_code(): launch, resolve, log, evaluate  *)
(* should_stop, and either rewrite and return or sleep and launch again.   *)
(***************************************************************************)
EXTENDS Integers, Sequences, FiniteSets

(***************************************************************************)
(* Bounds of the model.                                                    *)
(***************************************************************************)
\* Launches explored in one run (the loop itself has no such cap).
MaxLaunches == 3
\* retry_timeout values are 0..MaxTimeout clock units.
MaxTimeout == 2
\* Longest rewrite table explored by the rewrite-table specification.
MaxRewriteLen == 2

\* Exit codes a child may exit with.
ExitCodes == {0, 1}
\* Signals a child may be killed by.
Signals == {9}
\* Codes the retry_until / retry_on mutators draw their sets from.
PolicyCodes == {0, 1, 127}
\* (from, to) pairs the rewrite mutator draws its table from.
RewritePairs == {<<0, 1>>, <<1, 0>>}
\* Further exit codes of the rewrite-table specification.
WideExitCodes == {2}
\* (from, to) pairs of the rewrite-table specification.
WidePairs == {<<1, 2>>, <<2, 3>>, <<1, 10>>, <<1, 20>>, <<127, 1>>}
\* retry_delay values, in clock units.
Delays == {0, 1}
\* Wall-clock time one blocking command.status() call may take.
Durations == {0, 1}

(***************************************************************************)
(* ProcessOutcome: what command.status() hands back, io::Result<ExitStatus>*)
(*   Exited(code) | Signaled(signal) | NoCode (neither code nor signal)    *)
(*   | launch error of kind NotFound / PermissionDenied / Uncategorized    *)
(*     (ENOENT, EACCES, and e.g. ENOEXEC, whose kind is none of the named  *)
(*     ones).                                                              *)
(* display is the error's Display text, description its description():     *)
(* for an OS error std's description() is one fixed text.                  *)
(***************************************************************************)
Exited(c) == [kind |-> "Exited", val |-> c, display |-> "", description |-> ""]
Signaled(s) == [kind |-> "Signaled", val |-> s, display |-> "", description |-> ""]
NoCode == [kind |-> "NoCode", val |-> 0, display |-> "", description |-> ""]
LaunchFailed(k) ==
    [kind |-> k, val |-> 0,
     display |-> CASE k = "NotFound" -> "No such file or directory (os error 2)"
                   [] k = "PermissionDenied" -> "Permission denied (os error 13)"
                   [] OTHER -> "Exec format error (os error 8)",
     description |-> "description() is deprecated; use Display"]

ErrorKinds == {"NotFound", "PermissionDenied", "Uncategorized"}

Outcomes ==
    {Exited(c) : c \in ExitCodes} \cup {Signaled(s) : s \in Signals}
        \cup {NoCode} \cup {LaunchFailed(k) : k \in ErrorKinds}

\* Outcomes of the rewrite-table specification.
WideOutcomes == Outcomes \cup {Exited(c) : c \in WideExitCodes}

IsLaunchError(o) == o.kind \in ErrorKinds

(***************************************************************************)
(* Option<T> is a sequence of length 0 (None) or 1 (Some).                 *)
(***************************************************************************)
None == <<>>
Some(x) == <<x>>

(***************************************************************************)
(* Status Resolver: ExitCodeExt::exit_code.                                *)
(* Ok((code, msg_opt)) is [ok |-> TRUE, code, msg]; Err(io::Error) is      *)
(* [ok |-> FALSE, kind, description].                                      *)
(***************************************************************************)
Ok(code, msg) == [ok |-> TRUE, code |-> code, msg |-> msg]
Err(kind, description) == [ok |-> FALSE, kind |-> kind, description |-> description]

\* Mutant of exit_code_status: the signal number is not offset by 128.
exit_code_status_no_offset(o) ==
    IF o.kind = "Exited" THEN Ok(o.val, None)
    ELSE IF o.kind = "Signaled" THEN Ok(o.val, None)
    ELSE Err("Other", "Unkonwn exit code")

\* impl ExitCodeExt for ExitStatus.  signal + 128 is an i32 addition; signal
\* numbers are far below 2^31 - 128, so it never wraps.
exit_code_status(o) ==
    IF o.kind = "Exited" THEN Ok(o.val, None)
    ELSE IF o.kind = "Signaled" THEN Ok(o.val + 128, None)
    ELSE Err("Other", "Unkonwn exit code")

\* Mutants of exit_code_error.
\* Every launch failure is an error.
exit_code_error_all_fatal(o) == Err(o.kind, o.description)
\* An unclassified launch failure resolves to the internal code 125.
exit_code_error_125(o) ==
    IF o.kind = "NotFound" THEN Ok(127, Some(o.display))
    ELSE IF o.kind = "PermissionDenied" THEN Ok(126, Some(o.display))
    ELSE Ok(125, Some(o.display))

\* impl ExitCodeExt for io::Error
exit_code_error(o) ==
    IF o.kind = "NotFound" THEN Ok(127, Some(o.display))
    ELSE IF o.kind = "PermissionDenied" THEN Ok(126, Some(o.display))
    ELSE Err(o.kind, o.description)

\* impl ExitCodeExt for io::Result<ExitStatus>
exit_code(o) ==
    IF IsLaunchError(o) THEN exit_code_error(o) ELSE exit_code_status(o)

(***************************************************************************)
(* State.                                                                  *)
(***************************************************************************)
VARIABLES
    args,           \* the parsed command line of the CLI (None in the engine)
    pc,             \* "Config" | "Launching" | "Resolving" | "Evaluating"
                    \* | "Sleeping" | "Done" | "Failed"; in the CLI "CliStart"
                    \* | "CliLaunching" | "CliEvaluating" | "CliSleeping"
                    \* | "Exited" | "Panicked"
    retry_delay,    \* RetryCommand fields
    retry_timeout,
    retry_until,
    retry_on,       \* Option of a set of codes
    rewrite,        \* sequence of <<from, to>>
    logger,         \* None, Some("sink") or Some("broken")
    now,            \* the monotonic clock, Instant::now()
    start,          \* status_and_code's local `start`
    result,         \* status_and_code's local `result` (Option of an outcome)
    code,           \* status_and_code's local `code` (Option)
    msg_opt,        \* status_and_code's local `msg_opt`
    ret,            \* Option of the value status_and_code returned
    launched,       \* history: outcome of every command.status() call
    evals,          \* history: every should_stop call, [code, elapsed, stop]
    sleeps,         \* history: duration of every sleep(retry_delay) call
    rewrites,       \* history: argument of every rewrite_code call
    written         \* lines the logger sink received

vars == <<args, pc, retry_delay, retry_timeout, retry_until, retry_on, rewrite, logger,
          now, start, result, code, msg_opt, ret,
          launched, evals, sleeps, rewrites, written>>

policy == <<retry_delay, retry_timeout, retry_until, retry_on, rewrite, logger>>
locals == <<result, code, msg_opt>>
history == <<launched, evals, sleeps, rewrites, written>>

(***************************************************************************)
(* Vec::contains on the policy vectors: only membership is ever used, so   *)
(* retry_until and retry_on are kept as sets.                              *)
(***************************************************************************)
contains(v, c) == c \in v

\* Mutant of rewrite_code: the table is walked forwards, the first match wins.
RECURSIVE rewrite_fwd(_, _, _)
rewrite_fwd(table, i, c) ==
    IF i > Len(table) THEN c
    ELSE IF table[i][1] = c THEN table[i][2]
    ELSE rewrite_fwd(table, i + 1, c)

rewrite_code_first_match(table, c) == rewrite_fwd(table, 1, c)

\* RetryCommand::rewrite_code: the last pair whose from equals code, else code.
RECURSIVE rewrite_rev(_, _, _)
rewrite_rev(table, i, c) ==
    IF i = 0 THEN c
    ELSE IF table[i][1] = c THEN table[i][2]
    ELSE rewrite_rev(table, i - 1, c)

rewrite_code(table, c) == rewrite_rev(table, Len(table), c)

\* Instant::now() - start
elapsed_since(t0, t) == t - t0

\* Mutants of should_stop.
\* The elapsed time is not consulted.
should_stop_no_timeout(until, on, timeout, c, elapsed) ==
    IF contains(until, c) THEN TRUE
    ELSE IF on # None THEN ~contains(on[1], c) ELSE FALSE
\* retry_until is not consulted.
should_stop_no_until(until, on, timeout, c, elapsed) ==
    LET r == IF on # None THEN ~contains(on[1], c) ELSE FALSE
    IN  r \/ (elapsed >= timeout)
\* retry_on is not consulted.
should_stop_no_on(until, on, timeout, c, elapsed) ==
    IF contains(until, c) THEN TRUE ELSE elapsed >= timeout
\* The timeout is consulted only when retry_on is unset.
should_stop_on_hides_timeout(until, on, timeout, c, elapsed) ==
    IF contains(until, c) THEN TRUE
    ELSE IF on # None THEN ~contains(on[1], c) ELSE elapsed >= timeout
\* The timeout comparison is strict.
should_stop_strict(until, on, timeout, c, elapsed) ==
    IF contains(until, c) THEN TRUE
    ELSE LET r == IF on # None THEN ~contains(on[1], c) ELSE FALSE
         IN  r \/ (elapsed > timeout)

\* RetryCommand::should_stop
should_stop(until, on, timeout, c, elapsed) ==
    IF contains(until, c) THEN TRUE
    ELSE LET r == IF on # None THEN ~contains(on[1], c) ELSE FALSE
         IN  r \/ (elapsed >= timeout)

(***************************************************************************)
(* Init: RetryCommand::new.                                                *)
(***************************************************************************)
Init ==
    /\ args = None
    /\ pc = "Config"
    /\ retry_timeout = 0
    /\ retry_until = {0}
    /\ retry_on = None
    /\ retry_delay = 0
    /\ rewrite = <<>>
    /\ logger = None
    /\ now = 0
    /\ start = 0
    /\ result = None
    /\ code = None
    /\ msg_opt = None
    /\ ret = None
    /\ launched = <<>>
    /\ evals = <<>>
    /\ sleeps = <<>>
    /\ rewrites = <<>>
    /\ written = <<>>

(***************************************************************************)
(* Configuration mutators.                                                 *)
(***************************************************************************)
\* Tables of the main specification: empty or one pair.
ShortTables == {<<>>} \cup {<<p>> : p \in RewritePairs}
\* Tables of the rewrite-table specification: up to MaxRewriteLen pairs.
RewriteTables == UNION {[1..n -> WidePairs] : n \in 0..MaxRewriteLen}

SetRetryTimeout ==
    /\ pc = "Config"
    /\ \E v \in 0..MaxTimeout : retry_timeout' = v
    /\ UNCHANGED <<args, pc, retry_delay, retry_until, retry_on, rewrite, logger,
                   now, start, locals, ret, history>>

SetRetryDelay ==
    /\ pc = "Config"
    /\ \E v \in Delays : retry_delay' = v
    /\ UNCHANGED <<args, pc, retry_timeout, retry_until, retry_on, rewrite, logger,
                   now, start, locals, ret, history>>

SetRetryUntil ==
    /\ pc = "Config"
    /\ \E v \in SUBSET PolicyCodes : retry_until' = v
    /\ UNCHANGED <<args, pc, retry_delay, retry_timeout, retry_on, rewrite, logger,
                   now, start, locals, ret, history>>

SetRetryOn ==
    /\ pc = "Config"
    /\ \E v \in SUBSET PolicyCodes : retry_on' = Some(v)
    /\ UNCHANGED <<args, pc, retry_delay, retry_timeout, retry_until, rewrite, logger,
                   now, start, locals, ret, history>>

SetRewrite(tables) ==
    /\ pc = "Config"
    /\ \E v \in tables : rewrite' = v
    /\ UNCHANGED <<args, pc, retry_delay, retry_timeout, retry_until, retry_on, logger,
                   now, start, locals, ret, history>>

SetLogger ==
    /\ pc = "Config"
    /\ \E v \in {"sink", "broken"} : logger' = Some(v)
    /\ UNCHANGED <<args, pc, retry_delay, retry_timeout, retry_until, retry_on, rewrite,
                   now, start, locals, ret, history>>

(***************************************************************************)
(* status_and_code, one action per blocking step of its loop.              *)
(***************************************************************************)
\* Entry: let start = Instant::now();
Run ==
    /\ pc = "Config"
    /\ pc' = "Launching"
    /\ start' = now
    /\ UNCHANGED <<args, policy, now, locals, ret, history>>

\* let result = self.command.status();  (blocks until the child terminates)
Launch(outcomes, durations) ==
    /\ pc = "Launching"
    /\ Len(launched) < MaxLaunches
    /\ \E o \in outcomes, d \in durations :
          /\ result' = Some(o)
          /\ launched' = Append(launched, o)
          /\ now' = now + d
    /\ pc' = "Resolving"
    /\ UNCHANGED <<args, policy, start, code, msg_opt, ret, evals, sleeps, rewrites, written>>

\* self.log(msg): writeln! to the logger, a failed write is ignored.
log_line(m) == <<"command", m>>
log(sink, out, m) ==
    IF sink = Some("sink") THEN Append(out, log_line(m)) ELSE out

\* Mutant of Resolve: an unresolved status is treated as one more failed
\* attempt and retried after the delay.
ResolveRetriesUnresolved ==
    /\ pc = "Resolving"
    /\ LET r == exit_code(result[1]) IN
          IF r.ok
          THEN /\ code' = Some(r.code)
               /\ msg_opt' = r.msg
               /\ written' = IF r.msg # None THEN log(logger, written, r.msg[1])
                             ELSE written
               /\ pc' = "Evaluating"
          ELSE /\ pc' = "Sleeping"
               /\ UNCHANGED <<code, msg_opt, written>>
    /\ UNCHANGED <<args, policy, now, start, result, ret, launched, evals, sleeps,
                   rewrites>>

\* Mutant of Resolve: a failed write to the logger is propagated and ends
\* the run with the write error.
ResolveSinkFailureAborts ==
    /\ pc = "Resolving"
    /\ LET r == exit_code(result[1]) IN
          IF r.ok /\ ~(r.msg # None /\ logger = Some("broken"))
          THEN /\ code' = Some(r.code)
               /\ msg_opt' = r.msg
               /\ written' = IF r.msg # None THEN log(logger, written, r.msg[1])
                             ELSE written
               /\ pc' = "Evaluating"
               /\ ret' = ret
          ELSE /\ ret' = Some(Err("Other", "failed to write"))
               /\ pc' = "Failed"
               /\ UNCHANGED <<code, msg_opt, written>>
    /\ UNCHANGED <<args, policy, now, start, result, launched, evals, sleeps, rewrites>>

\* let (code, msg_opt) = try!(result.exit_code()); if let Some(msg) ... log
Resolve ==
    /\ pc = "Resolving"
    /\ LET r == exit_code(result[1]) IN
          IF r.ok
          THEN /\ code' = Some(r.code)
               /\ msg_opt' = r.msg
               /\ written' = IF r.msg # None THEN log(logger, written, r.msg[1])
                             ELSE written
               /\ pc' = "Evaluating"
               /\ ret' = ret
          ELSE /\ ret' = Some(r)
               /\ pc' = "Failed"
               /\ UNCHANGED <<code, msg_opt, written>>
    /\ UNCHANGED <<args, policy, now, start, result, launched, evals, sleeps, rewrites>>

\* Mutant of Evaluate: the engine sleeps before it evaluates the predicate,
\* so also after the attempt that stops the loop.
EvaluateAfterSleep ==
    /\ pc = "Evaluating"
    /\ now' = now + retry_delay
    /\ sleeps' = Append(sleeps, retry_delay)
    /\ LET el == elapsed_since(start, now')
           stop == should_stop(retry_until, retry_on, retry_timeout, code[1], el)
       IN /\ evals' = Append(evals, [code |-> code[1], elapsed |-> el, stop |-> stop])
          /\ IF stop
             THEN /\ ret' = Some([ok |-> TRUE, result |-> result[1],
                                  code |-> rewrite_code(rewrite, code[1])])
                  /\ rewrites' = Append(rewrites, code[1])
                  /\ pc' = "Done"
             ELSE /\ pc' = "Launching"
                  /\ UNCHANGED <<ret, rewrites>>
    /\ UNCHANGED <<args, policy, start, locals, launched, written>>

\* Mutant of Evaluate: the rewrite table is applied before the predicate, so
\* the predicate sees the rewritten code.
EvaluateRewritten ==
    /\ pc = "Evaluating"
    /\ LET el == elapsed_since(start, now)
           rc == rewrite_code(rewrite, code[1])
           stop == should_stop(retry_until, retry_on, retry_timeout, rc, el)
       IN /\ evals' = Append(evals, [code |-> rc, elapsed |-> el, stop |-> stop])
          /\ rewrites' = Append(rewrites, code[1])
          /\ IF stop
             THEN /\ ret' = Some([ok |-> TRUE, result |-> result[1], code |-> rc])
                  /\ pc' = "Done"
             ELSE /\ pc' = "Sleeping"
                  /\ UNCHANGED ret
    /\ UNCHANGED <<args, policy, now, start, locals, launched, sleeps, written>>

\* if self.should_stop(code, start) { return Ok((result, rewrite_code(code))) }
Evaluate ==
    /\ pc = "Evaluating"
    /\ LET el == elapsed_since(start, now)
           stop == should_stop(retry_until, retry_on, retry_timeout, code[1], el)
       IN /\ evals' = Append(evals, [code |-> code[1], elapsed |-> el, stop |-> stop])
          /\ IF stop
             THEN /\ ret' = Some([ok |-> TRUE, result |-> result[1],
                                  code |-> rewrite_code(rewrite, code[1])])
                  /\ rewrites' = Append(rewrites, code[1])
                  /\ pc' = "Done"
             ELSE /\ pc' = "Sleeping"
                  /\ UNCHANGED <<ret, rewrites>>
    /\ UNCHANGED <<args, policy, now, start, locals, launched, sleeps, written>>

\* Mutant of Sleep: the time origin is taken anew for the next attempt.
SleepRestartsClock ==
    /\ pc = "Sleeping"
    /\ now' = now + retry_delay
    /\ start' = now'
    /\ sleeps' = Append(sleeps, retry_delay)
    /\ pc' = "Launching"
    /\ UNCHANGED <<args, policy, locals, ret, launched, evals, rewrites, written>>

\* else { sleep(self.retry_delay); }  then the loop launches again
Sleep ==
    /\ pc = "Sleeping"
    /\ now' = now + retry_delay
    /\ sleeps' = Append(sleeps, retry_delay)
    /\ pc' = "Launching"
    /\ UNCHANGED <<args, policy, start, locals, ret, launched, evals, rewrites, written>>

Next ==
    \/ SetRetryTimeout
    \/ SetRetryDelay
    \/ SetRetryUntil
    \/ SetRetryOn
    \/ SetRewrite(ShortTables)
    \/ Run
    \/ Launch(Outcomes, Durations)
    \/ Resolve
    \/ Evaluate
    \/ Sleep

Spec == Init /\ [][Next]_vars

(***************************************************************************)
(* The rewrite-table specification: new(), then only the rewrite mutator   *)
(* (tables of up to MaxRewriteLen pairs), then one run.  With the default  *)
(* retry_timeout of 0 the run is a single attempt.                         *)
(***************************************************************************)
NextRewrite ==
    \/ SetRewrite(RewriteTables)
    \/ Run
    \/ Launch(WideOutcomes, Durations)
    \/ Resolve
    \/ Evaluate

SpecRewrite == Init /\ [][NextRewrite]_vars

(***************************************************************************)
(* The logging specification: new(), the mutators with logger among them   *)
(* (a sink that takes every line, or one whose every write fails), then    *)
(* one run.  The rewrite table stays empty.                                *)
(***************************************************************************)
NextLog ==
    \/ SetLogger
    \/ SetRetryTimeout
    \/ SetRetryDelay
    \/ SetRetryUntil
    \/ SetRetryOn
    \/ Run
    \/ Launch(Outcomes, Durations)
    \/ Resolve
    \/ Evaluate
    \/ Sleep

SpecLog == Init /\ [][NextLog]_vars

(***************************************************************************)
(* The specification for termination.  Every attempt terminates and the    *)
(* wall clock advances: a blocking command.status() call returns after a   *)
(* positive time, and the single thread running the loop always takes its  *)
(* next step (weak fairness of each step of status_and_code).              *)
(***************************************************************************)
TickingDurations == {d \in Durations : d >= 1}

NextLive ==
    \/ SetRetryTimeout
    \/ SetRetryDelay
    \/ SetRetryUntil
    \/ SetRetryOn
    \/ SetRewrite(ShortTables)
    \/ Run
    \/ Launch(Outcomes, TickingDurations)
    \/ Resolve
    \/ Evaluate
    \/ Sleep

SpecLive ==
    /\ Init
    /\ [][NextLive]_vars
    /\ WF_vars(Launch(Outcomes, TickingDurations))
    /\ WF_vars(Resolve)
    /\ WF_vars(Evaluate)
    /\ WF_vars(Sleep)

(***************************************************************************)
(* The public execution operations, as functions of what status_and_code   *)
(* returned (r is Ok((result, code)) or the resolver's Err).  A value      *)
(* returned to the caller is [ok |-> TRUE, value], the resolver's Err, or  *)
(* the Err of a launch.                                                    *)
(***************************************************************************)
\* The Err(io::Error) that command.status() returned for a failed launch:
\* the error itself, with its own kind, Display text and description().
LaunchErr(o) ==
    [ok |-> FALSE, kind |-> o.kind, display |-> o.display, description |-> o.description]

\* Mutant of RetryCommand_exit_code: a failed launch is handed back as an error.
RetryCommand_exit_code_raw(r) ==
    IF ~r.ok THEN r
    ELSE IF IsLaunchError(r.result)
         THEN LaunchErr(r.result)
         ELSE [ok |-> TRUE, value |-> r.code]

\* RetryCommand::exit_code: let (_, code) = try!(..); Ok(code)
RetryCommand_exit_code(r) ==
    IF ~r.ok THEN r ELSE [ok |-> TRUE, value |-> r.code]

\* RetryCommand::status: let (result, _) = try!(..); result
\* result is the io::Result<ExitStatus> of the last launch: the launch error
\* itself when that launch failed.
RetryCommand_status(r) ==
    IF ~r.ok THEN r
    ELSE IF IsLaunchError(r.result)
         THEN LaunchErr(r.result)
         ELSE [ok |-> TRUE, value |-> r.result]

(***************************************************************************)
(* The command-line program (main.rs).  Option values are strings, written *)
(* as sequences of one-character strings.                                  *)
(***************************************************************************)
ERR_EXIT_STATUS == 125
\* The exit status of a process whose main thread panicked.
PANIC_EXIT_STATUS == 101

Digits == <<"0", "1", "2", "3", "4", "5", "6", "7", "8", "9">>
IsDigit(ch) == \E i \in DOMAIN Digits : Digits[i] = ch
DigitVal(ch) == (CHOOSE i \in DOMAIN Digits : Digits[i] = ch) - 1
\* The decimal text of a number below ten.
Dec(n) == <<Digits[n + 1]>>

RECURSIVE DecValue(_)
DecValue(s) ==
    IF s = <<>> THEN 0
    ELSE 10 * DecValue(SubSeq(s, 1, Len(s) - 1)) + DigitVal(s[Len(s)])

\* Result<T, i32> of the CLI.  An error comes with the line that was
\* printed to stdout on the way (out).
CliOk(v) == [ok |-> TRUE, value |-> v]
CliErr(c, out) == [ok |-> FALSE, code |-> c, out |-> out]
\* The Err of str::parse.
ParseErr == [ok |-> FALSE]

AllDigits(s) == s # <<>> /\ \A i \in DOMAIN s : IsDigit(s[i])

\* i32::MAX and i32::MIN.
I32_MAX == 2147483647
I32_MIN == (0 - I32_MAX) - 1

\* The digit loop of str::parse::<i32>: result = result.checked_mul(10),
\* then checked_add(digit) for a positive number and checked_sub(digit) for
\* a negative one; None when a step leaves the range of i32.
RECURSIVE checked_digits(_, _, _)
checked_digits(s, acc, negative) ==
    IF s = <<>> THEN Some(acc)
    ELSE LET d == DigitVal(Head(s)) IN
         IF negative
         THEN IF acc < 0 - (I32_MAX \div 10) THEN None
              ELSE IF acc * 10 < I32_MIN + d THEN None
              ELSE checked_digits(Tail(s), acc * 10 - d, negative)
         ELSE IF acc > I32_MAX \div 10 THEN None
              ELSE IF acc * 10 > I32_MAX - d THEN None
              ELSE checked_digits(Tail(s), acc * 10 + d, negative)

\* str::parse::<i32>: an optional sign, then one or more digits, and the
\* value has to fit (PosOverflow / NegOverflow otherwise).
str_parse_i32(s) ==
    LET signed == s # <<>> /\ s[1] \in {"+", "-"}
        body == IF signed THEN Tail(s) ELSE s
        v == checked_digits(body, 0, signed /\ s[1] = "-")
    IN IF ~AllDigits(body) THEN ParseErr
       ELSE IF v = None THEN ParseErr
       ELSE CliOk(v[1])

\* Decimal texts compared as numbers: leading zeros dropped, then the
\* longer one is greater, and of two of one length the one with the greater
\* digit at the first difference.
RECURSIVE StripZeros(_)
StripZeros(s) ==
    IF s # <<>> /\ Head(s) = "0" THEN StripZeros(Tail(s)) ELSE s
RECURSIVE DigitsGreater(_, _)
DigitsGreater(a, b) ==
    IF a = <<>> THEN FALSE
    ELSE IF DigitVal(Head(a)) # DigitVal(Head(b)) THEN DigitVal(Head(a)) > DigitVal(Head(b))
    ELSE DigitsGreater(Tail(a), Tail(b))
TextGreater(a, b) ==
    LET x == StripZeros(a)
        y == StripZeros(b)
    IN Len(x) > Len(y) \/ (Len(x) = Len(y) /\ DigitsGreater(x, y))

\* The text of u64::MAX, 18446744073709551615.
U64MaxText ==
    <<"1", "8", "4", "4", "6", "7", "4", "4", "0", "7",
      "3", "7", "0", "9", "5", "5", "1", "6", "1", "5">>

\* str::parse::<u64>: an optional "+", then one or more digits; a "-" is an
\* invalid digit, and a value above u64::MAX is PosOverflow.  (A value that
\* fits is computed with the integers of the checker, which end at i32::MAX;
\* the command lines below hold no text between the two.)
str_parse_u64(s) ==
    LET signed == s # <<>> /\ s[1] = "+"
        body == IF signed THEN Tail(s) ELSE s
    IN IF ~AllDigits(body) THEN ParseErr
       ELSE IF TextGreater(body, U64MaxText) THEN ParseErr
       ELSE CliOk(DecValue(body))

\* Options::parse::<F>: on a parse error the value is printed to stdout and
\* the error becomes ERR_EXIT_STATUS.
parse_i32(s) ==
    LET r == str_parse_i32(s) IN
    IF r.ok THEN r ELSE CliErr(ERR_EXIT_STATUS, <<"Invalid option value", s>>)
\* Mutant of parse_u64: the value is read as a signed integer.
parse_u64_signed(s) == parse_i32(s)
parse_u64(s) ==
    LET r == str_parse_u64(s) IN
    IF r.ok THEN r ELSE CliErr(ERR_EXIT_STATUS, <<"Invalid option value", s>>)

\* str::split('='): the pieces between the separators, empty ones included.
RECURSIVE split(_, _)
split(s, sep) ==
    IF \A i \in DOMAIN s : s[i] # sep THEN <<s>>
    ELSE LET k == CHOOSE i \in DOMAIN s :
                      s[i] = sep /\ \A j \in 1..(i - 1) : s[j] # sep
         IN <<SubSeq(s, 1, k - 1)>> \o split(SubSeq(s, k + 1, Len(s)), sep)

\* Options::parse_rewrite: exactly two pieces, both i32.
parse_rewrite(s) ==
    LET parts == split(s, "=") IN
    IF Len(parts) # 2 THEN CliErr(ERR_EXIT_STATUS, <<"Invalid rewrite", s>>)
    ELSE LET a == parse_i32(parts[1])
             b == parse_i32(parts[2])
         IN IF ~a.ok THEN a
            ELSE IF ~b.ok THEN b
            ELSE CliOk(<<a.value, b.value>>)

\* iter().map(parse).collect::<Result<Vec<_>, i32>>(), and the push loop of
\* retry-on: the values in order, or the first error.
RECURSIVE collect_i32(_)
collect_i32(strs) ==
    IF strs = <<>> THEN CliOk(<<>>)
    ELSE LET h == parse_i32(Head(strs)) IN
         IF ~h.ok THEN h
         ELSE LET t == collect_i32(Tail(strs)) IN
              IF ~t.ok THEN t ELSE CliOk(<<h.value>> \o t.value)

RECURSIVE collect_rewrite(_)
collect_rewrite(strs) ==
    IF strs = <<>> THEN CliOk(<<>>)
    ELSE LET h == parse_rewrite(Head(strs)) IN
         IF ~h.ok THEN h
         ELSE LET t == collect_rewrite(Tail(strs)) IN
              IF ~t.ok THEN t ELSE CliOk(<<h.value>> \o t.value)

\* Options::default()
Options_default ==
    [retry_timeout |-> 0, retry_until |-> <<0>>, retry_on |-> <<>>,
     retry_delay |-> 0, rewrite |-> <<>>]

\* Options::try_from_opts(matches)
try_from_opts(m) ==
    LET t == IF m.timeout # None THEN parse_u64(m.timeout[1])
             ELSE CliOk(Options_default.retry_timeout)
        d == IF m.delay # None THEN parse_u64(m.delay[1])
             ELSE CliOk(Options_default.retry_delay)
        on == collect_i32(m.on)
        until == IF m.until # <<>> THEN collect_i32(m.until)
                 ELSE CliOk(Options_default.retry_until)
        rw == collect_rewrite(m.rewrite)
    IN IF ~t.ok THEN t
       ELSE IF ~d.ok THEN d
       ELSE IF ~on.ok THEN on
       ELSE IF ~until.ok THEN until
       ELSE IF ~rw.ok THEN rw
       ELSE CliOk([retry_timeout |-> t.value, retry_until |-> until.value,
                   retry_on |-> Options_default.retry_on \o on.value,
                   retry_delay |-> d.value, rewrite |-> rw.value])

(***************************************************************************)
(* The command lines.  An argument that is not valid Unicode makes         *)
(* std::env::args() panic (unicode FALSE); otherwise getopts either fails  *)
(* (unknown flag, missing value, a single-valued option given twice) or    *)
(* yields the matches: the flags, the number of free arguments and the raw *)
(* strings of the option values.                                           *)
(***************************************************************************)
\* 2^64, i32::MAX + 1 and i32::MIN - 1 as texts.
TooLargeU64 ==
    <<"1", "8", "4", "4", "6", "7", "4", "4", "0", "7",
      "3", "7", "0", "9", "5", "5", "1", "6", "1", "6">>
TooLargeI32 == <<"2", "1", "4", "7", "4", "8", "3", "6", "4", "8">>
TooSmallI32 == <<"-", "2", "1", "4", "7", "4", "8", "3", "6", "4", "9">>

TimeoutStrs == {Dec(n) : n \in 0..MaxTimeout} \cup {<<"-", "1">>, <<"x">>, TooLargeU64}
DelayStrs == {Dec(n) : n \in Delays} \cup {<<"1", "s">>}
OnArgs ==
    {<<>>, << <<"1">> >>, << <<"1">>, <<"1", "2", "7">> >>, << <<"1">>, <<"1", ".", "5">> >>,
     << TooLargeI32 >>}
UntilArgs ==
    {<<>>, << <<"1">> >>, << <<"0">>, <<"1", "2", "7">> >>, << <<"0">>, <<>> >>,
     << <<"0">>, TooSmallI32 >>}
RewriteArgs ==
    {<<>>,
     << <<"1", "=", "0">> >>,
     << <<"0", "=", "1">> >>,
     << <<"1", "=", "0">>, <<"1", "=", "1", "2", "7">> >>,
     << <<"1">> >>,
     << <<"1", "=", "0", "=", "1">> >>,
     << <<"1", "=", "x">> >>,
     << <<"=", "1">> >>}

GetoptsFail ==
    [unicode |-> TRUE, fail |-> TRUE, help |-> FALSE, version |-> FALSE, free |-> 0,
     timeout |-> None, delay |-> None, on |-> <<>>, until |-> <<>>, rewrite |-> <<>>]

\* A command with an argument that is not valid Unicode, no option.
NotUnicode ==
    [unicode |-> FALSE, fail |-> FALSE, help |-> FALSE, version |-> FALSE, free |-> 1,
     timeout |-> None, delay |-> None, on |-> <<>>, until |-> <<>>, rewrite |-> <<>>]

CommandLines ==
    {GetoptsFail, NotUnicode} \cup
    [unicode : {TRUE}, fail : {FALSE}, help : BOOLEAN, version : BOOLEAN, free : {0, 1},
     timeout : {None} \cup {Some(s) : s \in TimeoutStrs},
     delay : {None} \cup {Some(s) : s \in DelayStrs},
     on : OnArgs, until : UntilArgs, rewrite : RewriteArgs]

Range(f) == {f[i] : i \in DOMAIN f}

(***************************************************************************)
(* retry() of main.rs, the loop of the command-line program.               *)
(***************************************************************************)
\* let mut code = match status { ... }
cli_code(o) ==
    CASE o.kind = "Exited" -> o.val
      [] o.kind = "Signaled" -> o.val + 128
      [] o.kind = "NoCode" -> ERR_EXIT_STATUS
      [] o.kind = "NotFound" -> 127
      [] o.kind = "PermissionDenied" -> 126
      [] OTHER -> ERR_EXIT_STATUS

\* Mutant of cli_should_stop: an empty retry_on list allows no code.
cli_should_stop_empty_on(until, on, timeout, c, elapsed) ==
    \/ c \in until
    \/ c \notin on
    \/ elapsed >= timeout

\* The condition of the if in retry().
cli_should_stop(until, on, timeout, c, elapsed) ==
    \/ c \in until
    \/ (on # {} /\ c \notin on)
    \/ elapsed >= timeout

\* for &(from_code, to_code) in options.rewrite.iter().rev() { ... break }
RECURSIVE cli_rewrite(_, _)
cli_rewrite(table, c) ==
    IF table = <<>> THEN c
    ELSE IF table[Len(table)][1] = c THEN table[Len(table)][2]
    ELSE cli_rewrite(SubSeq(table, 1, Len(table) - 1), c)

\* The process starts with some command line.
CliInit ==
    /\ args \in {Some(a) : a \in CommandLines}
    /\ pc = "CliStart"
    /\ retry_timeout = Options_default.retry_timeout
    /\ retry_until = Range(Options_default.retry_until)
    /\ retry_on = Range(Options_default.retry_on)
    /\ retry_delay = Options_default.retry_delay
    /\ rewrite = Options_default.rewrite
    /\ logger = None
    /\ now = 0
    /\ start = 0
    /\ result = None
    /\ code = None
    /\ msg_opt = None
    /\ ret = None
    /\ launched = <<>>
    /\ evals = <<>>
    /\ sleeps = <<>>
    /\ rewrites = <<>>
    /\ written = <<>>

\* println_stderr! (panics when the write fails), println! and print!
\* (which panic likewise): the process prints lines, a sequence of
\* <<stream, text...>>, and then exits with status; a write that fails ends
\* it at that line with the status of a panic.  Whether a write succeeds is
\* up to the environment (a full device, a pipe whose reader has gone).
PrintThenExit(lines, status) ==
    \/ /\ written' = written \o lines
       /\ ret' = Some(status)
       /\ pc' = "Exited"
    \/ \E k \in DOMAIN lines :
          /\ written' = written \o SubSeq(lines, 1, k - 1)
          /\ ret' = Some(PANIC_EXIT_STATUS)
          /\ pc' = "Panicked"

\* main(): std::env::args().collect(), which panics on an argument that is
\* not valid Unicode; then run() up to the call of retry(), and main()'s
\* exit: ret is the exit status of the process (0 when run returns Ok).
CliRun ==
    /\ pc = "CliStart"
    /\ LET m == args[1]
           o == try_from_opts(m)
       IN IF ~m.unicode
          THEN /\ ret' = Some(PANIC_EXIT_STATUS)
               /\ pc' = "Panicked"
               /\ UNCHANGED <<policy, start, written>>
          ELSE IF m.fail
          THEN /\ PrintThenExit(<< <<"stderr", "getopts::Fail">> >>, ERR_EXIT_STATUS)
               /\ UNCHANGED <<policy, start>>
          ELSE IF m.help
          THEN /\ PrintThenExit(<< <<"stdout", "usage">> >>, 0)
               /\ UNCHANGED <<policy, start>>
          ELSE IF m.version
          THEN /\ PrintThenExit(<< <<"stdout", "retry VERSION">> >>, 0)
               /\ UNCHANGED <<policy, start>>
          ELSE IF m.free < 1
          THEN /\ PrintThenExit(<< <<"stderr", "missing an argument">>,
                                   <<"stderr", "for help, try --help">> >>,
                                ERR_EXIT_STATUS)
               /\ UNCHANGED <<policy, start>>
          ELSE IF ~o.ok
          THEN /\ PrintThenExit(<< <<"stdout">> \o o.out >>, o.code)
               /\ UNCHANGED <<policy, start>>
          ELSE /\ retry_timeout' = o.value.retry_timeout
               /\ retry_until' = Range(o.value.retry_until)
               /\ retry_on' = Range(o.value.retry_on)
               /\ retry_delay' = o.value.retry_delay
               /\ rewrite' = o.value.rewrite
               /\ start' = now
               /\ pc' = "CliLaunching"
               /\ UNCHANGED <<logger, ret, written>>
    /\ UNCHANGED <<args, now, locals, launched, evals, sleeps, rewrites>>

\* let status = command.status();
CliLaunch(outcomes, durations) ==
    /\ pc = "CliLaunching"
    /\ Len(launched) < MaxLaunches
    /\ \E o \in outcomes, d \in durations :
          /\ result' = Some(o)
          /\ launched' = Append(launched, o)
          /\ now' = now + d
    /\ pc' = "CliEvaluating"
    /\ UNCHANGED <<args, policy, start, code, msg_opt, ret, evals, sleeps, rewrites, written>>

\* What the match on status prints to stderr before it yields the code.
cli_diagnostic(o) ==
    IF o.kind = "NoCode" THEN << <<"stderr", "command", "exit code unavailable.">> >>
    ELSE IF IsLaunchError(o) THEN << <<"stderr", "command", o.display>> >>
    ELSE <<>>

\* The code of the attempt (with its diagnostic: a failed write to stderr
\* panics inside the match), the stop test, and on stop the rewrite and
\* return Err(code), which main() passes to std::process::exit.
CliEvaluate ==
    /\ pc = "CliEvaluating"
    /\ \/ /\ cli_diagnostic(result[1]) # <<>>
          /\ ret' = Some(PANIC_EXIT_STATUS)
          /\ pc' = "Panicked"
          /\ UNCHANGED <<code, evals, rewrites, written>>
       \/ LET c == cli_code(result[1])
              el == elapsed_since(start, now)
              stop == cli_should_stop(retry_until, retry_on, retry_timeout, c, el)
          IN /\ written' = written \o cli_diagnostic(result[1])
             /\ code' = Some(c)
             /\ evals' = Append(evals, [code |-> c, elapsed |-> el, stop |-> stop])
             /\ IF stop
                THEN /\ ret' = Some(cli_rewrite(rewrite, c))
                     /\ rewrites' = Append(rewrites, c)
                     /\ pc' = "Exited"
                ELSE /\ pc' = "CliSleeping"
                     /\ UNCHANGED <<ret, rewrites>>
    /\ UNCHANGED <<args, policy, now, start, result, msg_opt, launched, sleeps>>

\* sleep(options.retry_delay);
CliSleep ==
    /\ pc = "CliSleeping"
    /\ now' = now + retry_delay
    /\ sleeps' = Append(sleeps, retry_delay)
    /\ pc' = "CliLaunching"
    /\ UNCHANGED <<args, policy, start, locals, ret, launched, evals, rewrites, written>>

NextCli ==
    \/ CliRun
    \/ CliLaunch(Outcomes, Durations)
    \/ CliEvaluate
    \/ CliSleep

SpecCli == CliInit /\ [][NextCli]_vars

(***************************************************************************)
(* The engine and the command-line program side by side: a behaviour is    *)
(* either a RetryCommand built by new() and configured through the         *)
(* timeout, until and on mutators, or a run of the CLI (args is None in    *)
(* the former).                                                            *)
(***************************************************************************)
NextBoth ==
    \/ SetRetryTimeout
    \/ SetRetryUntil
    \/ SetRetryOn
    \/ Run
    \/ Launch(Outcomes, Durations)
    \/ Resolve
    \/ Evaluate
    \/ Sleep
    \/ NextCli

SpecBoth == (Init \/ CliInit) /\ [][NextBoth]_vars

(***************************************************************************)
(* Vocabulary of the properties, stated independently of the operators     *)
(* above.                                                                  *)
(***************************************************************************)
\* Evaluations made so far, and the attempt they belong to.
Attempts == 1..Len(evals)
\* The code is acceptable to retry_on: unset, or set and containing it.
Retryable(c) == retry_on = None \/ c \in retry_on[1]
\* The last pair of table whose from is c decides; no pair leaves c alone.
Matches(table, c) == {i \in DOMAIN table : table[i][1] = c}
LastMatch(table, c) ==
    IF Matches(table, c) = {} THEN c
    ELSE table[CHOOSE i \in Matches(table, c) :
                   \A j \in Matches(table, c) : j <= i][2]
\* The run has ended normally on attempt i.
StoppedOn(i) ==
    /\ pc = "Done"
    /\ i = Len(evals)
    /\ i = Len(launched)
    /\ evals[i].stop

\* C1: whenever an attempt's resolved code is in retry_until, should_stop
\* answered true for it (whatever retry_on, retry_timeout and the elapsed
\* time are) and that attempt is the last launch of the run.
C1_AcceptanceStops ==
    \A i \in Attempts :
        evals[i].code \in retry_until => StoppedOn(i)

\* C1 witness: a second attempt was accepted although retry_on is set and
\* does not hold the code, and the budget was not used up.
C1_Witness ==
    /\ pc = "Done"
    /\ Len(evals) = 2
    /\ evals[2].code \in retry_until
    /\ retry_on # None
    /\ evals[2].code \notin retry_on[1]
    /\ evals[2].elapsed < retry_timeout

\* C2: when retry_on is set and an attempt's code is neither in retry_on nor
\* in retry_until, the run stops on that attempt (also when elapsed <
\* retry_timeout), returns that code after rewrite, and does not sleep after
\* it.
C2_NonRetryableStops ==
    \A i \in Attempts :
        (retry_on # None /\ evals[i].code \notin retry_on[1]
                         /\ evals[i].code \notin retry_until)
        => /\ StoppedOn(i)
           /\ Len(sleeps) = i - 1
           /\ ret # None
           /\ ret[1].ok
           /\ ret[1].code = LastMatch(rewrite, evals[i].code)

\* C2 witness: retry_on is set, the second attempt's code is in neither set,
\* time is left, a rewrite pair applies, and the run has returned.
C2_Witness ==
    /\ pc = "Done"
    /\ Len(evals) = 2
    /\ retry_on # None
    /\ evals[2].code \notin retry_on[1]
    /\ evals[2].code \notin retry_until
    /\ evals[2].elapsed < retry_timeout
    /\ ret[1].code # evals[2].code

\* C3: an evaluation made at elapsed >= retry_timeout answers stop whatever
\* the code; an evaluation of a code outside retry_until that retry_on
\* allows, made at elapsed < retry_timeout, answers continue.  elapsed is
\* the clock reading of the evaluation minus the one taken at loop start.
C3_TimeoutClause ==
    /\ \A i \in Attempts :
        /\ evals[i].elapsed >= retry_timeout => evals[i].stop
        /\ (evals[i].code \notin retry_until /\ Retryable(evals[i].code)
              /\ evals[i].elapsed < retry_timeout) => ~evals[i].stop
    /\ pc \in {"Sleeping", "Done"} =>
          evals[Len(evals)].elapsed = now - start

\* C3 witness: a retryable, unaccepted code was first retried with time left
\* and then stopped the loop at elapsed = retry_timeout.
C3_Witness ==
    /\ pc = "Done"
    /\ Len(evals) = 2
    /\ retry_on # None
    /\ ~evals[1].stop
    /\ evals[2].code \in retry_on[1]
    /\ evals[2].code \notin retry_until
    /\ evals[2].elapsed = retry_timeout
    /\ retry_timeout > 0

\* The policy RetryCommand::new sets.
IsDefaultPolicy ==
    /\ retry_timeout = 0
    /\ retry_delay = 0
    /\ retry_until = {0}
    /\ retry_on = None
    /\ rewrite = <<>>

\* C4: with the policy of new() the command is launched exactly once, the
\* engine never sleeps, and the run returns the launch result and its
\* resolved code unchanged.
C4_NoRetriesByDefault ==
    (IsDefaultPolicy /\ pc # "Config") =>
        /\ Len(launched) <= 1
        /\ sleeps = <<>>
        /\ pc \in {"Launching", "Resolving", "Evaluating", "Done", "Failed"}
        /\ pc = "Launching" => launched = <<>>
        /\ pc = "Done" =>
              /\ Len(launched) = 1
              /\ ret[1].ok
              /\ ret[1].result = launched[1]
              /\ ret[1].code = code[1]
              /\ ret[1].code = evals[1].code

\* C4 witness: a default run whose child was killed by signal 9 returned 137,
\* a code outside retry_until.
C4_Witness ==
    /\ IsDefaultPolicy
    /\ pc = "Done"
    /\ launched = <<Signaled(9)>>
    /\ ret[1].code = 137

\* Every sleep lies between two launches: none before the first launch and
\* none after the last.
SleepsBetweenLaunches ==
    /\ pc = "Config" => (launched = <<>> /\ sleeps = <<>>)
    /\ pc = "Launching" => Len(sleeps) = Len(launched)
    /\ pc \in {"Resolving", "Evaluating", "Sleeping", "Done", "Failed"} =>
          Len(sleeps) = Len(launched) - 1

\* The case of C5: retry_on unset, every evaluation made with time left, and
\* the evaluated codes are n codes outside retry_until followed by one inside.
C5_Case ==
    /\ retry_on = None
    /\ Len(evals) >= 1
    /\ \A i \in Attempts : evals[i].elapsed < retry_timeout
    /\ \A i \in 1..(Len(evals) - 1) : evals[i].code \notin retry_until
    /\ evals[Len(evals)].code \in retry_until

\* The launches and sleeps C5 states: n + 1 launches, n sleeps of retry_delay,
\* one between each pair of consecutive launches.
C5_LaunchesAndSleeps ==
    /\ pc = "Done"
    /\ Len(launched) = Len(evals)
    /\ sleeps = [i \in 1..(Len(evals) - 1) |-> retry_delay]
    /\ ret[1].ok

\* C5 as stated: in that case the command was launched n + 1 times, the
\* engine slept retry_delay n times, and the returned code is the accepted
\* code itself.
C5_Original ==
    C5_Case =>
        /\ C5_LaunchesAndSleeps
        /\ ret[1].code = evals[Len(evals)].code

\* C5 amended: as C5, but the returned code is the accepted code after the
\* rewrite table was applied to it (the accepted code itself when no pair of
\* the table has it as from).
C5_RetryUntilAccepted ==
    /\ SleepsBetweenLaunches
    /\ C5_Case =>
          /\ C5_LaunchesAndSleeps
          /\ ret[1].code = LastMatch(rewrite, evals[Len(evals)].code)
          /\ Matches(rewrite, evals[Len(evals)].code) = {} =>
                ret[1].code = evals[Len(evals)].code

\* C5 witness: codes 1, 1, 0 with retry_until {0}: three launches, two
\* sleeps, final code 0.
C5_Witness ==
    /\ C5_Case
    /\ retry_until = {0}
    /\ Len(launched) = 3
    /\ evals[1].code = 1
    /\ evals[2].code = 1
    /\ evals[3].code = 0
    /\ Len(sleeps) = 2
    /\ ret[1].code = 0

\* Outcomes the Status Resolver cannot resolve.
Unresolvable(o) == o.kind \notin {"Exited", "Signaled", "NotFound", "PermissionDenied"}

\* C6: an attempt whose outcome cannot be resolved is the last launch of the
\* run; the run fails on it without evaluating the stop predicate for it,
\* without sleeping after it and without any rewrite, whatever the policy
\* and the elapsed time.
C6_UnresolvedIsFatal ==
    /\ \A i \in 1..Len(launched) :
          Unresolvable(launched[i]) =>
              /\ i = Len(launched)
              /\ pc \in {"Resolving", "Failed"}
              /\ Len(evals) = i - 1
              /\ Len(sleeps) = i - 1
              /\ rewrites = <<>>
              /\ pc = "Resolving" => ret = None
              /\ pc = "Failed" => (ret # None /\ ~ret[1].ok)
    /\ pc = "Failed" => Unresolvable(launched[Len(launched)])

\* C6 witness: the second attempt, made with time left under a policy with a
\* rewrite pair, ended with neither code nor signal and the run failed.
C6_Witness ==
    /\ pc = "Failed"
    /\ Len(launched) = 2
    /\ launched[2].kind = "NoCode"
    /\ evals[1].elapsed + 1 < retry_timeout
    /\ rewrite # <<>>
    /\ retry_on # None

\* The mapping of section 4.1, for the outcomes that have one.
ExpectedStatus(o) ==
    CASE o.kind = "Exited" -> <<o.val, None>>
      [] o.kind = "Signaled" -> <<o.val + 128, None>>
      [] o.kind = "NotFound" -> <<127, Some(o.display)>>
      [] o.kind = "PermissionDenied" -> <<126, Some(o.display)>>

\* C7: every attempt is resolved by the mapping Exited(c) -> (c, none),
\* Signaled(s) -> (s + 128, none), NotFound -> (127, message),
\* PermissionDenied -> (126, message), any other launch failure and a
\* termination with neither code nor signal -> error; the result is a
\* function of the outcome alone (signal 9 gives 137 in every run).
C7_ResolverMapping ==
    /\ \A i \in Attempts :
          /\ ~Unresolvable(launched[i])
          /\ evals[i].code = ExpectedStatus(launched[i])[1]
    /\ pc \in {"Evaluating", "Sleeping", "Done"} =>
          /\ result = Some(launched[Len(launched)])
          /\ <<code[1], msg_opt>> = ExpectedStatus(result[1])
    /\ pc = "Failed" =>
          /\ Unresolvable(result[1])
          /\ ~ret[1].ok
    /\ (result # None /\ Unresolvable(result[1])) => pc \in {"Resolving", "Failed"}
    /\ \A i \in Attempts : launched[i] = Signaled(9) => evals[i].code = 137

\* C7 witness: a permission-denied launch failure was resolved to 126 with
\* the error's message.
C7_Witness ==
    /\ pc = "Evaluating"
    /\ result[1].kind = "PermissionDenied"
    /\ code = Some(126)
    /\ msg_opt = Some("Permission denied (os error 13)")

\* Launch failures the resolver classifies.
Classified(o) == o.kind \in {"NotFound", "PermissionDenied"}

\* C8: an attempt that failed to launch with NotFound or PermissionDenied
\* does not fail the run; its code 127 or 126 is evaluated by the stop
\* predicate like an exit code: it is retried when it is not in retry_until,
\* retry_on allows it and time is left, and it stops the loop when it is in
\* retry_until.
C8_ClassifiedLaunchFailures ==
    /\ \A i \in 1..Len(launched) :
          Classified(launched[i]) =>
              /\ ~(pc = "Failed" /\ i = Len(launched))
              /\ pc \notin {"Resolving", "Evaluating"} => i \in Attempts
              /\ (pc = "Evaluating" /\ i = Len(launched)) =>
                    code = Some(IF launched[i].kind = "NotFound" THEN 127 ELSE 126)
    /\ \A i \in Attempts :
          Classified(launched[i]) =>
              /\ evals[i].code = IF launched[i].kind = "NotFound" THEN 127 ELSE 126
              /\ evals[i].stop <=>
                    \/ evals[i].code \in retry_until
                    \/ ~Retryable(evals[i].code)
                    \/ evals[i].elapsed >= retry_timeout
              /\ ~evals[i].stop =>
                    \/ i < Len(launched)
                    \/ pc = "Sleeping"
                    \/ pc = "Launching" /\ Len(sleeps) = i
              /\ evals[i].code \in retry_until => StoppedOn(i)

\* C8 witness: a permission-denied launch (126) was retried and the not-found
\* launch that followed (127, in retry_until) stopped the loop with time left.
C8_Witness ==
    /\ pc = "Done"
    /\ Len(evals) = 2
    /\ launched[1].kind = "PermissionDenied"
    /\ ~evals[1].stop
    /\ launched[2].kind = "NotFound"
    /\ 127 \in retry_until
    /\ evals[2].elapsed < retry_timeout

\* C9: the code a run returns is the to of the last pair of the rewrite table
\* whose from is the code the loop stopped on, and that code itself when no
\* pair has it as from; the result is not rewritten again.  [(1,10),(1,20)]
\* maps 1 to 20, [(1,10)] maps 2 to 2, [(1,2),(2,3)] maps 1 to 2.
C9_RewriteLastMatch ==
    pc = "Done" =>
        /\ rewrites = <<code[1]>>
        /\ ret[1].code = LastMatch(rewrite, code[1])
        /\ Matches(rewrite, code[1]) = {} => ret[1].code = code[1]
        /\ (rewrite = <<<<1, 10>>, <<1, 20>>>> /\ code[1] = 1) => ret[1].code = 20
        /\ (rewrite = <<<<1, 10>>>> /\ code[1] = 2) => ret[1].code = 2
        /\ (rewrite = <<<<1, 2>>, <<2, 3>>>> /\ code[1] = 1) => ret[1].code = 2
        /\ (rewrite = <<<<2, 3>>, <<1, 2>>>> /\ code[1] = 1) => ret[1].code = 2

\* C9 witness: the table [(1,10),(1,20)] rewrote final code 1 to 20.
C9_Witness ==
    /\ pc = "Done"
    /\ rewrite = <<<<1, 10>>, <<1, 20>>>>
    /\ code = Some(1)
    /\ ret[1].code = 20

\* C10: every evaluation of the stop predicate is made on the resolved code
\* of its attempt, not on a rewritten one; the rewrite table is applied
\* exactly once, to the code of the attempt the loop stopped on.  A pair
\* (a -> b) with b in retry_until does not make a stop the loop, and a pair
\* (a -> b) with a in retry_until does not make the loop continue.
C10_RewriteOnlyFinal ==
    /\ \A i \in Attempts :
          /\ evals[i].code = ExpectedStatus(launched[i])[1]
          /\ evals[i].stop <=>
                \/ evals[i].code \in retry_until
                \/ ~Retryable(evals[i].code)
                \/ evals[i].elapsed >= retry_timeout
    /\ pc # "Done" => rewrites = <<>>
    /\ pc = "Done" =>
          /\ rewrites = <<evals[Len(evals)].code>>
          /\ ret[1].code = LastMatch(rewrite, evals[Len(evals)].code)

\* C10 witness: with retry_until {0} and the pair (1 -> 0), code 1 was
\* retried with time left, and the run then stopped on code 1 at the timeout
\* and returned 0.
C10_Witness ==
    /\ pc = "Done"
    /\ retry_until = {0}
    /\ rewrite = <<<<1, 0>>>>
    /\ Len(evals) = 2
    /\ evals[1].code = 1
    /\ ~evals[1].stop
    /\ evals[2].code = 1
    /\ ret[1].code = 0

\* C11: every launch after the first begins at elapsed < retry_timeout: once
\* the elapsed time has reached retry_timeout the engine starts no new
\* attempt, whatever retry_delay and the attempts' durations are.  (In
\* "Launching" with a launch behind it, the engine is about to launch again.)
C11_NoLaunchAfterTimeout ==
    (pc = "Launching" /\ launched # <<>>) => now - start < retry_timeout

\* Some attempt of the run could not be resolved.
ResolverFailed == \E i \in 1..Len(launched) : Unresolvable(launched[i])

\* C12 as stated: exit_code() and status() each return an error if and only
\* if the resolver failed on some attempt; a run that stopped normally, also
\* on a classified launch failure, returns a success value from both.
C12_Original ==
    pc \in {"Done", "Failed"} =>
        /\ ~RetryCommand_exit_code(ret[1]).ok <=> ResolverFailed
        /\ ~RetryCommand_status(ret[1]).ok <=> ResolverFailed

\* C12 amended: exit_code() returns an error if and only if the resolver
\* failed on some attempt, and the final code otherwise; status() returns an
\* error if and only if the resolver failed or the loop stopped on an attempt
\* whose launch failed (NotFound / PermissionDenied), in which case it hands
\* back that launch error itself (its kind, Display text and description),
\* and the last ExitStatus otherwise.  When the resolver failed, both return
\* the resolver's error: a new error of the launch error's kind made from
\* its description(), or "Unkonwn exit code" of kind Other for a status with
\* neither code nor signal.
C12_FailsOnlyOnUnresolved ==
    pc \in {"Done", "Failed"} =>
        LET last == launched[Len(launched)] IN
        /\ pc = "Failed" <=> ResolverFailed
        /\ ~RetryCommand_exit_code(ret[1]).ok <=> ResolverFailed
        /\ pc = "Done" =>
              RetryCommand_exit_code(ret[1]).value = LastMatch(rewrite, code[1])
        /\ ~RetryCommand_status(ret[1]).ok <=> (ResolverFailed \/ Classified(last))
        /\ RetryCommand_status(ret[1]).ok => RetryCommand_status(ret[1]).value = last
        /\ (pc = "Done" /\ Classified(last)) =>
              /\ RetryCommand_status(ret[1]) =
                    [ok |-> FALSE, kind |-> last.kind, display |-> last.display,
                     description |-> last.description]
              /\ RetryCommand_status(ret[1]).display \in
                    {"No such file or directory (os error 2)",
                     "Permission denied (os error 13)"}
        /\ pc = "Failed" =>
              LET e == IF last.kind = "NoCode"
                       THEN [ok |-> FALSE, kind |-> "Other",
                             description |-> "Unkonwn exit code"]
                       ELSE [ok |-> FALSE, kind |-> last.kind,
                             description |-> last.description]
              IN /\ RetryCommand_exit_code(ret[1]) = e
                 /\ RetryCommand_status(ret[1]) = e

\* C12 witness: the loop stopped on a second attempt that was not found;
\* exit_code() returns 127 and status() returns the launch error.
C12_Witness ==
    /\ pc = "Done"
    /\ Len(launched) = 2
    /\ launched[2].kind = "NotFound"
    /\ rewrite = <<>>
    /\ RetryCommand_exit_code(ret[1]) = [ok |-> TRUE, value |-> 127]
    /\ ~RetryCommand_status(ret[1]).ok
    /\ RetryCommand_status(ret[1]).kind = "NotFound"
    /\ RetryCommand_status(ret[1]).display = "No such file or directory (os error 2)"

\* C15: the run's only transitions are Launching -> Resolving, Resolving ->
\* Failed (unresolved) or -> Evaluating, Evaluating -> Done (stop) or ->
\* Sleeping (continue), Sleeping -> Launching; Done and Failed have no
\* outgoing transition; the run starts in Launching and every finished run
\* has launched at least once.
C15_StateMachine ==
    [][ /\ pc = "Config" => pc' \in {"Config", "Launching"}
        /\ pc = "Launching" => pc' = "Resolving" /\ Len(launched') = Len(launched) + 1
        /\ pc = "Resolving" =>
              pc' = IF Unresolvable(result[1]) THEN "Failed" ELSE "Evaluating"
        /\ pc = "Evaluating" =>
              pc' = IF evals'[Len(evals')].stop THEN "Done" ELSE "Sleeping"
        /\ pc = "Sleeping" => pc' = "Launching"
        /\ pc \notin {"Done", "Failed"}
        /\ pc' \in {"Done", "Failed"} => Len(launched') >= 1
      ]_vars

\* C15 witness: a run went twice round the loop and failed on its third
\* attempt.
C15_Witness ==
    /\ pc = "Failed"
    /\ Len(launched) = 3
    /\ Len(sleeps) = 2

\* C19: the start time is captured once, when the run begins, and no step
\* of the loop changes it or changes retry_timeout, retry_delay, retry_until,
\* retry_on or rewrite; the elapsed time of every evaluation is measured from
\* that one origin, so it accumulates over the attempts and the sleeps.
C19_Frame ==
    [][ /\ pc # "Config" =>
              UNCHANGED <<start, retry_timeout, retry_delay, retry_until,
                          retry_on, rewrite>>
        /\ (pc = "Config" /\ pc' # "Config") =>
              /\ start' = now
              /\ UNCHANGED <<retry_timeout, retry_delay, retry_until,
                             retry_on, rewrite>>
        /\ pc = "Evaluating" =>
              /\ evals'[Len(evals')].elapsed = now - start
              /\ Len(evals) >= 1 =>
                    evals'[Len(evals')].elapsed
                        >= evals[Len(evals)].elapsed + retry_delay
      ]_vars

\* C19 witness: the first evaluation was made at elapsed 1 and the second,
\* after a sleep of 1 and an attempt of 1, at elapsed 3.
C19_Witness ==
    /\ Len(evals) = 2
    /\ retry_delay = 1
    /\ evals[1].elapsed = 1
    /\ evals[2].elapsed = 3

\* C16: when every attempt terminates and the clock advances, a run that has
\* begun reaches Done or Failed, for every retry_timeout and every sequence
\* of outcomes; and an attempt that resolves to a code in retry_until ends
\* the run in Done on that very attempt.
C16_Termination ==
    /\ [](\A i \in Attempts :
            evals[i].code \in retry_until => (pc = "Done" /\ i = Len(launched)))
    /\ [](pc = "Evaluating" /\ code[1] \in retry_until => Len(evals) = Len(launched) - 1)
    /\ (pc = "Launching") ~> (pc \in {"Done", "Failed"})

\* C16 witness: a retryable, unaccepted code was retried until the largest
\* timeout ran out and the run ended in Done.
C16_Witness ==
    /\ pc = "Done"
    /\ retry_timeout = MaxTimeout
    /\ retry_timeout > 0
    /\ Len(evals) >= 2
    /\ evals[Len(evals)].code \notin retry_until
    /\ Retryable(evals[Len(evals)].code)
    /\ evals[Len(evals)].elapsed >= retry_timeout

\* Attempts whose outcome has gone through the resolver.
Resolved == IF pc = "Resolving" THEN Len(launched) - 1 ELSE Len(launched)
\* The lines a working sink holds after the first k attempts.
ExpectedLines(k) ==
    LET cls == SelectSeq(SubSeq(launched, 1, k), Classified)
    IN [i \in 1..Len(cls) |-> <<"command", cls[i].display>>]
\* What the stop predicate is claimed to answer for evaluation i.
WantStop(i) ==
    \/ evals[i].code \in retry_until
    \/ ~Retryable(evals[i].code)
    \/ evals[i].elapsed >= retry_timeout

\* C20: a working sink holds exactly one line for each resolved attempt that
\* failed to launch with NotFound / PermissionDenied, in order, and nothing
\* else; no sink and a failing sink hold nothing.  Launches, evaluations,
\* sleeps, the end of the run and its result are the same function of the
\* policy, the outcomes and the clock readings whichever sink is configured.
C20_SinkIsSideEffect ==
    /\ written = IF logger = Some("sink") THEN ExpectedLines(Resolved) ELSE <<>>
    /\ \A i \in Attempts :
          /\ evals[i].code = ExpectedStatus(launched[i])[1]
          /\ evals[i].stop = WantStop(i)
          /\ evals[i].stop => (pc = "Done" /\ i = Len(launched))
    /\ SleepsBetweenLaunches
    /\ Len(evals) = CASE pc \in {"Config", "Launching", "Sleeping", "Done"} -> Len(launched)
                      [] pc \in {"Resolving", "Evaluating", "Failed"} -> Len(launched) - 1
    /\ pc = "Failed" <=> (Resolved > 0 /\ Unresolvable(launched[Resolved]))
    /\ pc = "Done" <=> (evals # <<>> /\ evals[Len(evals)].stop)
    /\ pc = "Done" =>
          ret = Some([ok |-> TRUE, result |-> launched[Len(launched)],
                      code |-> LastMatch(rewrite, evals[Len(evals)].code)])
    /\ pc = "Failed" =>
          /\ ret # None
          /\ ~ret[1].ok
          /\ ret[1].kind = IF launched[Resolved].kind = "NoCode" THEN "Other"
                           ELSE launched[Resolved].kind
    /\ pc \notin {"Done", "Failed"} => ret = None

\* C20 witness: with a sink whose writes fail, an attempt failed to launch
\* with a classified error, nothing was written, and the run went on to a
\* later attempt and ended normally.
C20_Witness ==
    /\ logger = Some("broken")
    /\ pc = "Done"
    /\ Len(launched) >= 2
    /\ Classified(launched[1])
    /\ written = <<>>
    /\ Len(sleeps) = Len(launched) - 1

\* The text of an integer: digits, with an optional sign in front.
IsIntegerText(s) ==
    \/ AllDigits(s)
    \/ (s # <<>> /\ s[1] \in {"+", "-"} /\ AllDigits(Tail(s)))
\* The text of a non-negative integer as u64 reads it: no "-".
IsUnsignedText(s) ==
    \/ AllDigits(s)
    \/ (s # <<>> /\ s[1] = "+" /\ AllDigits(Tail(s)))
\* The text of an integer that an i32 holds.
FitsI32(s) ==
    /\ IsIntegerText(s)
    /\ IF s[1] = "-" THEN ~TextGreater(Tail(s), TooLargeI32)
       ELSE IF s[1] = "+" THEN TextGreater(TooLargeI32, Tail(s))
       ELSE TextGreater(TooLargeI32, s)
\* The text of a non-negative integer that a u64 holds.
FitsU64(s) ==
    /\ IsUnsignedText(s)
    /\ TextGreater(TooLargeU64, IF s[1] = "+" THEN Tail(s) ELSE s)
\* <int>=<int>: exactly one "=", an integer text on each side.
IsRewriteText(s) ==
    \E k \in DOMAIN s :
        /\ s[k] = "="
        /\ IsIntegerText(SubSeq(s, 1, k - 1))
        /\ IsIntegerText(SubSeq(s, k + 1, Len(s)))
\* The list and rewrite values of a command line are well formed.
ListsWellFormed(m) ==
    /\ \A i \in DOMAIN m.on : IsIntegerText(m.on[i])
    /\ \A i \in DOMAIN m.until : IsIntegerText(m.until[i])
    /\ \A i \in DOMAIN m.rewrite : IsRewriteText(m.rewrite[i])
\* The configuration errors as C13 lists them.
ConfigErrorAsStated(m) ==
    \/ m.fail
    \/ m.free = 0
    \/ (m.timeout # None /\ ~IsIntegerText(m.timeout[1]))
    \/ (m.delay # None /\ ~IsIntegerText(m.delay[1]))
    \/ ~ListsWellFormed(m)
\* <int>=<int> with both integers in the range of i32.
FitsRewrite(s) ==
    \E k \in DOMAIN s :
        /\ s[k] = "="
        /\ FitsI32(SubSeq(s, 1, k - 1))
        /\ FitsI32(SubSeq(s, k + 1, Len(s)))
\* The configuration errors of a command line that asks for neither help
\* nor the version.
ConfigError(m) ==
    \/ m.fail
    \/ m.free = 0
    \/ (m.timeout # None /\ ~FitsU64(m.timeout[1]))
    \/ (m.delay # None /\ ~FitsU64(m.delay[1]))
    \/ \E i \in DOMAIN m.on : ~FitsI32(m.on[i])
    \/ \E i \in DOMAIN m.until : ~FitsI32(m.until[i])
    \/ \E i \in DOMAIN m.rewrite : ~FitsRewrite(m.rewrite[i])
\* The CLI loop has ended and the process exited with the rewritten code of
\* its last attempt.
ExitedWithFinalCode ==
    /\ evals # <<>>
    /\ Len(evals) = Len(launched)
    /\ evals[Len(evals)].stop
    /\ ret = Some(LastMatch(rewrite, evals[Len(evals)].code))

\* The process has ended, by exit or by the panic of a failed print.
Ended == pc \in {"Exited", "Panicked"}
\* Nothing was launched; the process ends with status unless a print
\* failed, and then with the status of a panic.
EndsUnlaunched(status) ==
    /\ launched = <<>>
    /\ pc = "Exited" => ret = Some(status)
    /\ pc = "Panicked" => ret = Some(PANIC_EXIT_STATUS)
\* The process panicked in the loop: the last attempt was one whose outcome
\* is reported on stderr, and it was not evaluated.
PanickedOnDiagnostic ==
    /\ launched # <<>>
    /\ launched[Len(launched)].kind \notin {"Exited", "Signaled"}
    /\ Len(evals) = Len(launched) - 1
    /\ ret = Some(PANIC_EXIT_STATUS)

\* C13 as stated: a command line with an unknown flag, no command, a
\* non-integer option value or a malformed rewrite exits 125 without a
\* launch; every other command line exits with the loop's final code.
C13_Original ==
    IF ConfigErrorAsStated(args[1])
    THEN launched = <<>> /\ (Ended => ret = Some(ERR_EXIT_STATUS))
    ELSE Ended => ExitedWithFinalCode

\* C13: an argument that is not valid Unicode ends the process with 101;
\* otherwise a command line getopts rejects exits 125; otherwise --help or
\* --version exits 0 whatever else is given; otherwise no command, a
\* --retry-timeout / --retry-delay value that is not a non-negative integer
\* a u64 holds, a --retry-until / --retry-on value that is not an integer an
\* i32 holds or a --rewrite value that is not <i32>=<i32> exits 125; in all
\* these cases nothing is launched, and the status is 101 instead when the
\* message could not be printed.  Every
\* other command line exits with the final (rewritten) code of the loop,
\* or with 101 when the report of a failed attempt could not be printed.
C13_ConfigErrors ==
    LET m == args[1] IN
    IF ~m.unicode THEN launched = <<>> /\ (Ended => (pc = "Panicked" /\ ret = Some(PANIC_EXIT_STATUS)))
    ELSE IF m.fail THEN EndsUnlaunched(ERR_EXIT_STATUS)
    ELSE IF m.help \/ m.version THEN EndsUnlaunched(0)
    ELSE IF ConfigError(m) THEN EndsUnlaunched(ERR_EXIT_STATUS)
    ELSE /\ pc = "Exited" => ExitedWithFinalCode
         /\ pc = "Panicked" => PanickedOnDiagnostic

\* C13 witness: a negative --retry-timeout with a command and neither help
\* nor version has exited 125 without a launch.
C13_Witness ==
    /\ pc = "Exited"
    /\ ~args[1].fail /\ ~args[1].help /\ ~args[1].version
    /\ args[1].free = 1
    /\ args[1].timeout = Some(<<"-", "1">>)
    /\ args[1].delay = None
    /\ ListsWellFormed(args[1])
    /\ ret = Some(ERR_EXIT_STATUS)
    /\ written = << <<"stdout", "Invalid option value", <<"-", "1">> >> >>
    /\ launched = <<>>

\* C14: when --retry-timeout is given and the loop ends because the timeout
\* was reached (the last code is not in retry_until and retry_on does not
\* exclude it), the exit status is 127.
C14_TimeoutExits127 ==
    (/\ pc = "Exited"
     /\ evals # <<>>
     /\ args[1].timeout # None
     /\ evals[Len(evals)].code \notin retry_until
     /\ (retry_on = {} \/ evals[Len(evals)].code \in retry_on)
     /\ evals[Len(evals)].elapsed >= retry_timeout)
    => ret = Some(127)

\* The engine's retry_on for the CLI's list: an empty list is unset.
EngineRetryOn == IF retry_on = {} THEN None ELSE Some(retry_on)

\* C17: on every attempt the CLI loop does what the engine's loop does with
\* the same policy, outcome and clock reading: the same code, the same stop
\* decision, the same sleeps and the same final code; an outcome the engine
\* cannot resolve ends the CLI loop on that attempt with 125.
C17_LoopsAgree ==
    \A i \in 1..Len(launched) :
        LET r == exit_code(launched[i]) IN
        IF r.ok
        THEN (i < Len(launched) \/ pc # "CliEvaluating") =>
               /\ i \in Attempts
               /\ evals[i].code = r.code
               /\ evals[i].stop = should_stop(retry_until, EngineRetryOn, retry_timeout,
                                              r.code, evals[i].elapsed)
               /\ evals[i].stop =>
                     /\ i = Len(launched)
                     /\ Len(sleeps) = i - 1
                     /\ ret = Some(rewrite_code(rewrite, r.code))
        ELSE pc # "CliEvaluating" =>
               /\ i = Len(launched)
               /\ pc = "Exited"
               /\ Len(sleeps) = i - 1
               /\ ret = Some(ERR_EXIT_STATUS)


\* retry_on has been configured with no codes: the engine's
\* retry_on(vec![]), the CLI's list without a --retry-on value.
EmptyRetryOn == IF args = None THEN retry_on = Some({}) ELSE retry_on = {}
\* Evaluation i stopped exactly when an unset retry_on would have it stop.
StopsAsUnset(i) ==
    evals[i].stop <=> (evals[i].code \in retry_until \/ evals[i].elapsed >= retry_timeout)

\* C18 as stated: in the engine and in the CLI alike, with a retry_on of no
\* codes every evaluation stops exactly when the code is in retry_until or
\* the timeout is reached.
C18_Original ==
    EmptyRetryOn => \A i \in Attempts : StopsAsUnset(i)

\* C18: in the CLI a retry_on list of no codes behaves like an unset
\* retry_on, every code outside retry_until being retried until the timeout
\* is reached; in the engine retry_on(vec![]) holds no code, so every
\* evaluation stops the run, whatever the code and the elapsed time.
C18_EmptyRetryOn ==
    EmptyRetryOn =>
        \A i \in Attempts :
            IF args = None
            THEN evals[i].stop /\ i = 1 /\ pc = "Done"
            ELSE StopsAsUnset(i)

\* C18 witness: an engine configured with retry_on(vec![]) stopped on a
\* first attempt whose code is outside retry_until with time left.
C18_Witness ==
    /\ args = None
    /\ retry_on = Some({})
    /\ pc = "Done"
    /\ Len(evals) = 1
    /\ evals[1].code \notin retry_until
    /\ evals[1].elapsed < retry_timeout

====
